---- MODULE Spec2Model ----
(***************************************************************************)
(* HighLevelTypeConverter of vast (Translation/HighLevelTypeConverter.cpp) *)
(* as a state machine: the codegen context holds the two tag registries    *)
(* (type_decls, type_defs) and the data layout table; the converter is     *)
(* called on clang types and returns high-level dialect types.             *)
(***************************************************************************)
EXTENDS Integers, Sequences, FiniteSets, TLC

VARIABLES type_decls, type_defs, data_layout, returned, last, ncalls

vars == <<type_decls, type_defs, data_layout, returned, last, ncalls>>

\* number of converter calls made from outside in one behaviour
MaxCalls == 2
\* number of names the declaration visitor inserts into the two registries
MaxMarks == 2

(***************************************************************************)
(* The clang side: qualifiers, qualified types, and the types of a small   *)
(* translation unit.                                                       *)
(***************************************************************************)
Quals == [c : BOOLEAN, v : BOOLEAN]

NoQuals == [c |-> FALSE, v |-> FALSE]
ConstOnly == [c |-> TRUE, v |-> FALSE]
VolatileOnly == [c |-> FALSE, v |-> TRUE]

QualType(ty, c, v) == [ty |-> ty, c |-> c, v |-> v]

Plain(ty) == QualType(ty, FALSE, FALSE)

getTypePtr(qt) == qt.ty

getQualifiers(qt) == [c |-> qt.c, v |-> qt.v]

\* clang::BuiltinType::Kind values the converter can meet
BuiltinKinds ==
    {"Void", "Bool", "Char_U", "UChar", "WChar_U", "Char16", "UShort", "UInt",
     "ULong", "ULongLong", "UInt128", "Char_S", "SChar", "WChar_S", "Short",
     "Int", "Long", "LongLong", "Int128", "Half", "Float", "Double",
     "LongDouble", "Float16", "BFloat16", "Float128", "NullPtr"}

\* the tag name of an anonymous declaration: TagDecl::getName() is empty
Anonymous == ""

\* The translation unit the inputs are drawn from:
\*   typedef int myint;
\*   struct S { int x; struct S * const next; };
\*   typedef struct L L_t;
\*   struct L { int id; L_t * next; };
\*   enum E { ... };   an anonymous struct { int a; }   an anonymous enum
\*   double arr[4];   int fn(int, const char *);   int old();
\*   int bad(myint, struct { int a; });   and a vector type
AST ==
    [id \in BuiltinKinds |-> [kind |-> "Builtin", bk |-> id]] @@
    ("myint"   :> [kind |-> "Typedef", underlying |-> Plain("Int")]) @@
    ("S"       :> [kind |-> "Record", name |-> "S",
                   fields |-> << [name |-> "x", type |-> Plain("Int")],
                                 [name |-> "next", type |-> QualType("pS", TRUE, FALSE)] >>]) @@
    ("eS"      :> [kind |-> "Elaborated", named |-> Plain("S")]) @@
    ("pS"      :> [kind |-> "Pointer", pointee |-> Plain("eS")]) @@
    ("L"       :> [kind |-> "Record", name |-> "L",
                   fields |-> << [name |-> "id", type |-> Plain("Int")],
                                 [name |-> "next", type |-> Plain("pL_t")] >>]) @@
    ("eL"      :> [kind |-> "Elaborated", named |-> Plain("L")]) @@
    ("L_t"     :> [kind |-> "Typedef", underlying |-> Plain("eL")]) @@
    ("pL_t"    :> [kind |-> "Pointer", pointee |-> Plain("L_t")]) @@
    ("E"       :> [kind |-> "Enum", name |-> "E"]) @@
    ("anonS"   :> [kind |-> "Record", name |-> Anonymous,
                   fields |-> << [name |-> "a", type |-> Plain("Int")] >>]) @@
    ("eAnonS"  :> [kind |-> "Elaborated", named |-> Plain("anonS")]) @@
    ("pAnonS"  :> [kind |-> "Pointer", pointee |-> Plain("eAnonS")]) @@
    ("anonE"   :> [kind |-> "Enum", name |-> Anonymous]) @@
    ("arrD4"   :> [kind |-> "ConstantArray", element |-> Plain("Double"), size |-> 4]) @@
    ("arrAnon" :> [kind |-> "ConstantArray", element |-> Plain("eAnonS"), size |-> 2]) @@
    ("pcChar"  :> [kind |-> "Pointer", pointee |-> QualType("Char_S", TRUE, FALSE)]) @@
    ("fn"      :> [kind |-> "FunctionProto",
                   params |-> << Plain("Int"), Plain("pcChar") >>,
                   ret |-> Plain("Int")]) @@
    ("old"     :> [kind |-> "FunctionNoProto", params |-> << >>, ret |-> Plain("Int")]) @@
    ("bad"     :> [kind |-> "FunctionProto",
                   params |-> << Plain("myint"), Plain("eAnonS") >>,
                   ret |-> Plain("Int")]) @@
    ("vec"     :> [kind |-> "Vector"])

TagNames == {"S", "L", "E", Anonymous}

Sugar == {"Typedef", "Elaborated"}

Underlying(ty) ==
    IF AST[ty].kind = "Typedef" THEN AST[ty].underlying ELSE AST[ty].named

\* clang::Type::getUnqualifiedDesugaredType: strip every sugar layer and
\* the qualifiers met on the way
RECURSIVE getUnqualifiedDesugaredType(_)
getUnqualifiedDesugaredType(ty) ==
    IF AST[ty].kind \in Sugar
        THEN getUnqualifiedDesugaredType(Underlying(ty).ty)
        ELSE ty

Kind(ty) == AST[getUnqualifiedDesugaredType(ty)].kind

isBuiltinType(ty) == Kind(ty) = "Builtin"
isPointerType(ty) == Kind(ty) = "Pointer"
isRecordType(ty) == Kind(ty) = "Record"
isEnumeralType(ty) == Kind(ty) = "Enum"
isConstantArrayType(ty) == Kind(ty) = "ConstantArray"
isFunctionType(ty) == Kind(ty) \in {"FunctionProto", "FunctionNoProto"}

\* dyn_cast< TagType >: the node itself is a tag type, no desugaring
isTagTypeNode(ty) == AST[ty].kind \in {"Record", "Enum"}

\* clang::BuiltinType predicates, by the order of BuiltinType::Kind
isVoidType(bk) == bk = "Void"
isBooleanType(bk) == bk = "Bool"
isUnsignedIntegerType(bk) ==
    bk \in {"Bool", "Char_U", "UChar", "WChar_U", "Char16", "UShort", "UInt",
            "ULong", "ULongLong", "UInt128"}
isIntegerType(bk) ==
    \/ isUnsignedIntegerType(bk)
    \/ bk \in {"Char_S", "SChar", "WChar_S", "Short", "Int", "Long", "LongLong", "Int128"}
isFloatingType(bk) ==
    bk \in {"Half", "Float", "Double", "LongDouble", "Float16", "BFloat16", "Float128"}

(***************************************************************************)
(* The high-level dialect types (values, compared structurally).           *)
(***************************************************************************)
VoidType == [k |-> "Void"]
BoolType(c, v) == [k |-> "Bool", c |-> c, v |-> v]
IntegerType(kind, u, c, v) == [k |-> "Integer", kind |-> kind, u |-> u, c |-> c, v |-> v]
FloatingType(kind, c, v) == [k |-> "Floating", kind |-> kind, c |-> c, v |-> v]
PointerType(elem, c, v) == [k |-> "Pointer", elem |-> elem, c |-> c, v |-> v]
ConstantArrayType(elem, size, c, v) ==
    [k |-> "ConstantArray", elem |-> elem, size |-> size, c |-> c, v |-> v]
FieldInfo(name, type) == [name |-> name, type |-> type]
RecordType(fields) == [k |-> "Record", fields |-> fields]
NamedType(name) == [k |-> "Named", name |-> name]
FunctionType(args, rty) == [k |-> "Function", args |-> args, rty |-> rty]

Unreachable == "unreachable"

\* get_integer_kind with ULong filed under the next wider class
get_integer_kind_ulong_slip(bk) ==
    CASE bk \in {"Char_U", "UChar", "Char_S", "SChar"} -> "Char"
      [] bk \in {"Short", "UShort"} -> "Short"
      [] bk \in {"Int", "UInt"} -> "Int"
      [] bk \in {"Long"} -> "Long"
      [] bk \in {"LongLong", "ULongLong", "ULong"} -> "LongLong"
      [] bk \in {"Int128", "UInt128"} -> "Int128"
      [] OTHER -> Unreachable

get_integer_kind(bk) ==
    CASE bk \in {"Char_U", "UChar", "Char_S", "SChar"} -> "Char"
      [] bk \in {"Short", "UShort"} -> "Short"
      [] bk \in {"Int", "UInt"} -> "Int"
      [] bk \in {"Long", "ULong"} -> "Long"
      [] bk \in {"LongLong", "ULongLong"} -> "LongLong"
      [] bk \in {"Int128", "UInt128"} -> "Int128"
      [] OTHER -> Unreachable

get_floating_kind(bk) ==
    CASE bk \in {"Half", "Float16"} -> "Half"
      [] bk = "BFloat16" -> "BFloat16"
      [] bk = "Float" -> "Float"
      [] bk = "Double" -> "Double"
      [] bk = "LongDouble" -> "LongDouble"
      [] bk = "Float128" -> "Float128"
      [] OTHER -> Unreachable

(***************************************************************************)
(* Outcomes of a call.  ctx is the codegen context as the call leaves it:  *)
(* the two registries, the data layout table and the history of the types  *)
(* that convert calls returned.                                            *)
(***************************************************************************)
Ok(out, ctx) == [status |-> "ok", out |-> out, ctx |-> ctx]

\* CHECK and UNREACHABLE: a hard stop with a message
Fail(error, ctx) == [status |-> "fail", out |-> [k |-> "Error", error |-> error], ctx |-> ctx]

\* a call on a type that is already being converted further up the call
\* stack: the registries are only read, so the same calls repeat for ever
Diverge(ctx) == [status |-> "diverge", out |-> [k |-> "None"], ctx |-> ctx]

\* try_emplace written as insert_or_assign: an existing entry is replaced
try_emplace_assigning(ctx, out, ty) ==
    [ctx EXCEPT !.data_layout =
        {e \in @ : e.key # out} \cup {[key |-> out, ty |-> ty]}]

\* DenseMap::try_emplace on ctx.data_layout(): no effect when the key exists
try_emplace(ctx, out, ty) ==
    IF \E e \in ctx.data_layout : e.key = out
        THEN ctx
        ELSE [ctx EXCEPT !.data_layout = @ \cup {[key |-> out, ty |-> ty]}]

Returns(ctx, out) == [ctx EXCEPT !.returned = @ \cup {out}]

RECURSIVE convert_QualType(_, _, _)
RECURSIVE convert_Type(_, _, _, _)
RECURSIVE dl_aware_convert(_, _, _, _)
RECURSIVE do_convert(_, _, _, _)
RECURSIVE do_convert_PointerType(_, _, _, _)
RECURSIVE do_convert_RecordType(_, _, _, _)
RECURSIVE do_convert_ConstantArrayType(_, _, _, _)
RECURSIVE convert_FunctionType(_, _, _)
RECURSIVE convert_each(_, _, _, _)

convert_QualType(qt, ctx, stack) ==
    convert_Type(getTypePtr(qt), getQualifiers(qt), ctx, stack)

convert_Type(ty, quals, ctx, stack) ==
    dl_aware_convert(ty, quals, ctx, stack)

\* a call of convert(const clang::FunctionType *) from outside returns r
function_returned(r) ==
    IF r.status # "ok" THEN r
    ELSE Ok(r.out, Returns(r.ctx, r.out))

\* dl_aware_convert after do_convert has returned r: the layout entry and
\* the return
record_layout(ty, r) ==
    IF r.status # "ok" THEN r
    ELSE IF ~isFunctionType(ty)
        THEN Ok(r.out, Returns(try_emplace(r.ctx, r.out, ty), r.out))
        ELSE Ok(r.out, Returns(r.ctx, r.out))

\* the layout entry made whatever the type is
record_layout_always(ty, r) ==
    IF r.status # "ok" THEN r
    ELSE Ok(r.out, Returns(try_emplace(r.ctx, r.out, ty), r.out))

\* dl_aware_convert without the isFunctionType test
dl_aware_convert_no_function_test(ty, quals, ctx, stack) ==
    IF ty \in stack THEN Diverge(ctx)
    ELSE record_layout_always(ty, do_convert(ty, quals, ctx, stack \cup {ty}))

dl_aware_convert(ty, quals, ctx, stack) ==
    IF ty \in stack THEN Diverge(ctx)
    ELSE record_layout(ty, do_convert(ty, quals, ctx, stack \cup {ty}))

do_convert_BuiltinType(ty, quals, ctx) ==
    LET bk == AST[ty].bk
        v == quals.v
        c == quals.c
    IN  IF isVoidType(bk) THEN Ok(VoidType, ctx)
        ELSE IF isBooleanType(bk) THEN Ok(BoolType(c, v), ctx)
        ELSE IF isIntegerType(bk)
            THEN LET u == isUnsignedIntegerType(bk)
                 IN  IF get_integer_kind(bk) = Unreachable
                         THEN Fail("UnknownIntegerKind", ctx)
                         ELSE Ok(IntegerType(get_integer_kind(bk), u, c, v), ctx)
        ELSE IF isFloatingType(bk)
            THEN IF get_floating_kind(bk) = Unreachable
                     THEN Fail("UnknownFloatingKind", ctx)
                     ELSE Ok(FloatingType(get_floating_kind(bk), c, v), ctx)
        ELSE Fail("UnknownBuiltinKind", ctx)

\* the pointee lambda: one ElaboratedType layer is unwrapped
pointee_of(ty) ==
    LET p == AST[ty].pointee
    IN  IF AST[p.ty].kind = "Elaborated" THEN AST[p.ty].named ELSE p

\* PointerType::get on the converted pointee
pointer_to(converted_pointee, quals) ==
    IF converted_pointee.status # "ok" THEN converted_pointee
    ELSE Ok(PointerType(converted_pointee.out, quals.c, quals.v), converted_pointee.ctx)

do_convert_PointerType(ty, quals, ctx, stack) ==
    LET pointee == pointee_of(ty)
    IN  IF isTagTypeNode(pointee.ty) /\ AST[pointee.ty].name \in ctx.type_decls
            THEN pointer_to(Ok(NamedType(AST[pointee.ty].name), ctx), quals)
            ELSE pointer_to(convert_QualType(pointee, ctx, stack), quals)

\* one turn of a loop over a list of types: r is the conversion of the head
each_next(types, acc, stack, r) ==
    IF r.status # "ok" THEN r
    ELSE convert_each(Tail(types), Append(acc, r.out), r.ctx, stack)

\* convert the types of a list one after the other, left to right
convert_each(types, acc, ctx, stack) ==
    IF types = << >> THEN Ok(acc, ctx)
    ELSE each_next(types, acc, stack, convert_QualType(Head(types), ctx, stack))

FieldTypes(decl) == [i \in 1..Len(decl.fields) |-> decl.fields[i].type]

\* RecordType::get on the converted fields
record_of(decl, r) ==
    IF r.status # "ok" THEN r
    ELSE Ok(RecordType([i \in 1..Len(decl.fields) |->
                          FieldInfo(decl.fields[i].name, r.out[i])]),
            r.ctx)

\* the record rule without the "declared first" CHECK
do_convert_RecordType_unchecked(ty, quals, ctx, stack) ==
    LET decl == AST[ty]
        name == decl.name
    IN  IF name = Anonymous THEN Fail("UnsupportedAnonymousAggregate", ctx)
        ELSE IF name \notin ctx.type_defs
            THEN record_of(decl, convert_each(FieldTypes(decl), << >>, ctx, stack))
        ELSE Ok(NamedType(name), ctx)

\* the record rule that expands the body whether or not the name is defined
do_convert_RecordType_reexpanding(ty, quals, ctx, stack) ==
    LET decl == AST[ty]
        name == decl.name
    IN  IF name = Anonymous THEN Fail("UnsupportedAnonymousAggregate", ctx)
        ELSE IF name \notin ctx.type_decls THEN Fail("DeclarationOrderViolation", ctx)
        ELSE record_of(decl, convert_each(FieldTypes(decl), << >>, ctx, stack))

\* the context with name marked as defined when r is a result
defining(name, r) ==
    IF r.status # "ok" THEN r
    ELSE [r EXCEPT !.ctx.type_defs = @ \cup {name}]

\* the record rule that marks the record defined once it has expanded it
do_convert_RecordType_defining(ty, quals, ctx, stack) ==
    LET decl == AST[ty]
        name == decl.name
    IN  IF name = Anonymous THEN Fail("UnsupportedAnonymousAggregate", ctx)
        ELSE IF name \notin ctx.type_defs
            THEN IF name \notin ctx.type_decls THEN Fail("DeclarationOrderViolation", ctx)
                 ELSE defining(name,
                        record_of(decl, convert_each(FieldTypes(decl), << >>, ctx, stack)))
        ELSE Ok(NamedType(name), ctx)

do_convert_RecordType(ty, quals, ctx, stack) ==
    LET decl == AST[ty]
        name == decl.name
    IN  IF name = Anonymous THEN Fail("UnsupportedAnonymousAggregate", ctx)
        ELSE IF name \notin ctx.type_defs
            THEN IF name \notin ctx.type_decls THEN Fail("DeclarationOrderViolation", ctx)
                 ELSE record_of(decl, convert_each(FieldTypes(decl), << >>, ctx, stack))
        ELSE Ok(NamedType(name), ctx)

do_convert_EnumType(ty, quals, ctx) ==
    LET decl == AST[ty]
    IN  IF decl.name = Anonymous THEN Fail("UnsupportedAnonymousAggregate", ctx)
        ELSE Ok(NamedType(decl.name), ctx)

\* ConstantArrayType::get on the converted element
array_of(element_type, size, quals) ==
    IF element_type.status # "ok" THEN element_type
    ELSE Ok(ConstantArrayType(element_type.out, size, quals.c, quals.v), element_type.ctx)

\* the array rule that pushes the array's qualifiers into the element
do_convert_ConstantArrayType_pushing(ty, quals, ctx, stack) ==
    array_of(convert_Type(AST[ty].element.ty, quals, ctx, stack), AST[ty].size, quals)

do_convert_ConstantArrayType(ty, quals, ctx, stack) ==
    array_of(convert_QualType(AST[ty].element, ctx, stack), AST[ty].size, quals)

\* mlir::FunctionType::get on the converted parameters and return type
function_of(args, rty) ==
    IF rty.status # "ok" THEN rty
    ELSE Ok(FunctionType(args.out, rty.out), rty.ctx)

\* the return type is converted after the parameters
function_return(ty, args, stack) ==
    IF args.status # "ok" THEN args
    ELSE function_of(args, convert_QualType(AST[ty].ret, args.ctx, stack))

convert_FunctionType(ty, ctx, stack) ==
    IF AST[ty].kind = "FunctionProto"
        THEN function_return(ty, convert_each(AST[ty].params, << >>, ctx, stack), stack)
        ELSE function_return(ty, Ok(<< >>, ctx), stack)

do_convert(type, quals, ctx, stack) ==
    LET ty == getUnqualifiedDesugaredType(type)
    IN  IF isBuiltinType(ty) THEN do_convert_BuiltinType(ty, quals, ctx)
        ELSE IF isPointerType(ty) THEN do_convert_PointerType(ty, quals, ctx, stack)
        ELSE IF isRecordType(ty) THEN do_convert_RecordType(ty, quals, ctx, stack)
        ELSE IF isEnumeralType(ty) THEN do_convert_EnumType(ty, quals, ctx)
        ELSE IF isConstantArrayType(ty) THEN do_convert_ConstantArrayType(ty, quals, ctx, stack)
        ELSE IF isFunctionType(ty) THEN convert_FunctionType(ty, ctx, stack)
        ELSE Fail("UnknownTypeKind", ctx)

(***************************************************************************)
(* The state machine.                                                      *)
(***************************************************************************)
Ctx ==
    [type_decls |-> type_decls, type_defs |-> type_defs,
     data_layout |-> data_layout, returned |-> returned]

NoCall ==
    [entry |-> "none", ty |-> "Void", quals |-> NoQuals, status |-> "none",
     out |-> [k |-> "None"]]

Init ==
    /\ type_decls = {}
    /\ type_defs = {}
    /\ data_layout = {}
    /\ returned = {}
    /\ last = NoCall
    /\ ncalls = 0

\* a failed CHECK or UNREACHABLE, or a stack overflow, ends the process
Running == last.status \in {"none", "ok"}

Finish(entry, ty, quals, r) ==
    /\ type_decls' = r.ctx.type_decls
    /\ type_defs' = r.ctx.type_defs
    /\ data_layout' = r.ctx.data_layout
    /\ returned' = r.ctx.returned
    /\ last' = [entry |-> entry, ty |-> ty, quals |-> quals, status |-> r.status,
                out |-> r.out]
    /\ ncalls' = ncalls + 1

\* the types the visitor hands to convert(const clang::Type *, Quals)
TopTypes ==
    {"Int", "S", "L", "pS", "pAnonS", "anonS", "anonE", "E",
     "arrD4", "arrAnon", "fn", "vec"}

TopQuals == {ConstOnly, VolatileOnly}

\* the qualified types the visitor hands to convert(clang::QualType)
TopQualTypes == {Plain("Int"), Plain("eS"), Plain("L_t")}

FunctionTypes == {"fn", "old", "bad"}

ConvertQualType(qt) ==
    /\ Running
    /\ ncalls < MaxCalls
    /\ Finish("QualType", getTypePtr(qt), getQualifiers(qt), convert_QualType(qt, Ctx, {}))

ConvertType(ty, quals) ==
    /\ Running
    /\ ncalls < MaxCalls
    /\ Finish("Type", ty, quals, convert_Type(ty, quals, Ctx, {}))

ConvertFunction(ty) ==
    /\ Running
    /\ ncalls < MaxCalls
    /\ Finish("FunctionType", ty, NoQuals,
              function_returned(convert_FunctionType(ty, Ctx, {})))

ConvertBuiltin(ty, quals) ==
    /\ AST[ty].kind = "Builtin"
    /\ ConvertType(ty, quals)

Marks == Cardinality(type_decls) + Cardinality(type_defs)

\* the declaration visitor records a tag name as declared
MarkDeclared(name) ==
    /\ Running
    /\ Marks < MaxMarks
    /\ name \notin type_decls
    /\ type_decls' = type_decls \cup {name}
    /\ UNCHANGED <<type_defs, data_layout, returned, last, ncalls>>

\* the declaration visitor records a tag name as defined
MarkDefined(name) ==
    /\ Running
    /\ Marks < MaxMarks
    /\ name \notin type_defs
    /\ type_defs' = type_defs \cup {name}
    /\ UNCHANGED <<type_decls, data_layout, returned, last, ncalls>>

Next ==
    \/ \E qt \in TopQualTypes : ConvertQualType(qt)
    \/ \E ty \in TopTypes, quals \in TopQuals : ConvertType(ty, quals)
    \/ \E ty \in FunctionTypes : ConvertFunction(ty)
    \/ \E name \in TagNames : MarkDeclared(name)
    \/ \E name \in TagNames : MarkDefined(name)

Spec == Init /\ [][Next]_vars

NextBuiltin == \E ty \in BuiltinKinds, quals \in Quals : ConvertBuiltin(ty, quals)

SpecBuiltin == Init /\ [][NextBuiltin]_vars

TypeOK ==
    /\ type_decls \subseteq TagNames
    /\ type_defs \subseteq TagNames
    /\ ncalls \in 0..MaxCalls
    /\ last.status \in {"none", "ok", "fail", "diverge"}

(***************************************************************************)
(* Properties.                                                             *)
(***************************************************************************)
IsCall == last.status # "none"

\* a step that is a call of one of the convert entry points; in such a step
\* the unprimed registries are those the call reads
ConvertStep == ncalls' = ncalls + 1

\* the node a call on ty dispatches on
Dispatched(ty) == getUnqualifiedDesugaredType(ty)

IsNamedRecord(ty) == AST[ty].kind = "Record" /\ AST[ty].name # Anonymous

IsAnonymousTag(ty) == AST[ty].kind \in {"Record", "Enum"} /\ AST[ty].name = Anonymous

Children(ty) ==
    LET n == AST[ty]
    IN  CASE n.kind = "Typedef" -> {n.underlying.ty}
          [] n.kind = "Elaborated" -> {n.named.ty}
          [] n.kind = "Pointer" -> {n.pointee.ty}
          [] n.kind = "Record" -> {n.fields[i].type.ty : i \in 1..Len(n.fields)}
          [] n.kind = "ConstantArray" -> {n.element.ty}
          [] n.kind \in {"FunctionProto", "FunctionNoProto"} ->
                {n.params[i].ty : i \in 1..Len(n.params)} \cup {n.ret.ty}
          [] OTHER -> {}

RECURSIVE Reachable(_, _)
Reachable(frontier, seen) ==
    IF frontier \subseteq seen THEN seen
    ELSE Reachable(UNION {Children(t) : t \in frontier}, seen \cup frontier)

\* the tag names of the type graph under ty
TagNamesOf(ty) ==
    {AST[t].name : t \in {u \in Reachable({ty}, {}) : AST[u].kind \in {"Record", "Enum"}}}

\* C1: a convert call on a type graph all of whose tag names are declared
\* ends in a result or a failure, never in unbounded recursion
C1_Terminates ==
    [][(ConvertStep /\ TagNamesOf(last'.ty) \subseteq type_decls)
       => last'.status # "diverge"]_vars

\* the fields of record ty whose type is a pointer to the record itself
SelfPointerFields(ty) ==
    {i \in 1..Len(AST[ty].fields) :
        LET f == getUnqualifiedDesugaredType(AST[ty].fields[i].type.ty)
        IN  /\ AST[f].kind = "Pointer"
            /\ getUnqualifiedDesugaredType(AST[f].pointee.ty) = ty}

\* out is the Record of ty with the fields in declaration order and every
\* pointer-to-itself field a Pointer(NamedType(name)) with the qualifiers of
\* the field's type
IsSelfPointerRecord(ty, out) ==
    /\ out.k = "Record"
    /\ Len(out.fields) = Len(AST[ty].fields)
    /\ \A i \in 1..Len(AST[ty].fields) : out.fields[i].name = AST[ty].fields[i].name
    /\ \A i \in SelfPointerFields(ty) :
            out.fields[i].type =
                PointerType(NamedType(AST[ty].name),
                            AST[ty].fields[i].type.c, AST[ty].fields[i].type.v)

\* C2: a named record that is declared, not defined, and has a field of
\* type pointer-to-itself converts to Record with the fields in declaration
\* order, the self-referential field being Pointer(NamedType(name)) with
\* the qualifiers of the field's pointer type
C2_SelfPointer ==
    [][(/\ ConvertStep
        /\ IsNamedRecord(Dispatched(last'.ty))
        /\ AST[Dispatched(last'.ty)].name \in type_decls \ type_defs
        /\ SelfPointerFields(Dispatched(last'.ty)) # {})
       => /\ last'.status = "ok"
          /\ IsSelfPointerRecord(Dispatched(last'.ty), last'.out)]_vars

IsDeclarationOrderViolation(call) ==
    call.status = "fail" /\ call.out.error = "DeclarationOrderViolation"

\* every field of record ty converts on its own in the current context
FieldsConvert(ty) ==
    \A i \in 1..Len(AST[ty].fields) :
        convert_QualType(AST[ty].fields[i].type, Ctx, {}).status = "ok"

C4_DefinedIsNamed ==
    [][(/\ ConvertStep
        /\ IsNamedRecord(Dispatched(last'.ty))
        /\ AST[Dispatched(last'.ty)].name \in type_defs)
       => LET named == NamedType(AST[Dispatched(last'.ty)].name)
          IN  /\ last'.status = "ok"
              /\ last'.out = named
              /\ returned' = returned \cup {named}
              /\ data_layout' \subseteq
                    data_layout \cup {[key |-> named, ty |-> last'.ty]}]_vars

\* two conversions in a row of the defined record L, whose body diverges
C4_Witness ==
    /\ ncalls = 2
    /\ Dispatched(last.ty) = "L"
    /\ "L" \in type_defs
    /\ last.out = NamedType("L")
    /\ returned = {NamedType("L")}

LayoutKeys == {e.key : e \in data_layout}

\* the call that last is the record of, made again in the current context
Again ==
    CASE last.entry = "QualType" ->
            convert_QualType(QualType(last.ty, last.quals.c, last.quals.v), Ctx, {})
      [] last.entry = "Type" -> convert_Type(last.ty, last.quals, Ctx, {})
      [] OTHER -> function_returned(convert_FunctionType(last.ty, Ctx, {}))

\* C5: the recorder holds exactly one entry for every non-function type a
\* convert call returned and none for a function type; no step removes or
\* replaces an entry, and converting the same type a second time leaves the
\* recorder as it is
C5_LayoutEntries ==
    [][/\ LayoutKeys' = {t \in returned' : t.k # "Function"}
       /\ \A e1, e2 \in data_layout' : e1.key = e2.key => e1 = e2
       /\ data_layout \subseteq data_layout'
       /\ (ConvertStep /\ last.status = "ok" /\ Again.status = "ok" /\ Again.out = last.out
             /\ last'.entry = last.entry /\ last'.ty = last.ty /\ last'.quals = last.quals)
            => data_layout' = data_layout]_vars

\* a function type went through convert(const clang::Type *, Quals) a
\* second time, and the recorder holds the entries of its parameters only
C5_Witness ==
    /\ ncalls = 2
    /\ last.entry = "Type"
    /\ last.ty = "fn"
    /\ last.status = "ok"
    /\ last.out.k = "Function"
    /\ Cardinality(data_layout) = 3

\* C6: no convert call changes the declared set or the defined set
C6_RegistryReadOnly ==
    [][ConvertStep => (type_decls' = type_decls /\ type_defs' = type_defs)]_vars

\* record S was expanded and is still not defined
C6_Witness ==
    /\ last.status = "ok"
    /\ Dispatched(last.ty) = "S"
    /\ last.out.k = "Record"
    /\ "S" \notin type_defs

HasQualifierBits(t) == t.k \in {"Bool", "Integer", "Floating", "Pointer", "ConstantArray"}

\* an IR type with the qualifier bits of its outermost node cleared
StripOuter(t) == IF HasQualifierBits(t) THEN [t EXCEPT !.c = FALSE, !.v = FALSE] ELSE t

Flipped(quals) == IF quals = ConstOnly THEN VolatileOnly ELSE ConstOnly

\* C7: a call with {const} and the call with {volatile} on the same type in
\* the same context end the same way and return types that are equal once
\* the qualifier bits of the outermost node are cleared
C7_QualifierPropagation ==
    [][(ConvertStep /\ last'.entry = "Type" /\ last'.quals \in {ConstOnly, VolatileOnly})
       => LET other == convert_Type(last'.ty, Flipped(last'.quals), Ctx, {})
          IN  /\ other.status = last'.status
              /\ last'.status = "ok" => StripOuter(other.out) = StripOuter(last'.out)
              /\ last'.status = "fail" => other.out = last'.out]_vars

\* a const array whose element kept its own (absent) qualifiers
C7_Witness ==
    /\ last.entry = "Type"
    /\ last.status = "ok"
    /\ last.quals = ConstOnly
    /\ last.out.k = "ConstantArray"
    /\ last.out.c
    /\ ~last.out.elem.c

\* the reference mapping of the builtin kinds
IntegerClass ==
    [bk \in {"Char_U", "UChar", "Char_S", "SChar"} |-> "Char"] @@
    [bk \in {"Short", "UShort"} |-> "Short"] @@
    [bk \in {"Int", "UInt"} |-> "Int"] @@
    [bk \in {"Long", "ULong"} |-> "Long"] @@
    [bk \in {"LongLong", "ULongLong"} |-> "LongLong"] @@
    [bk \in {"Int128", "UInt128"} |-> "Int128"]

UnsignedKinds == {"Char_U", "UChar", "UShort", "UInt", "ULong", "ULongLong", "UInt128"}

FloatingClass ==
    [bk \in {"Half", "Float16"} |-> "Half"] @@
    [bk \in {"BFloat16", "Float", "Double", "LongDouble", "Float128"} |-> bk]

\* C8: a builtin converts to the node of the reference mapping, with the
\* given qualifiers, and a builtin without a mapping fails
C8_BuiltinMapping ==
    (IsCall /\ AST[last.ty].kind = "Builtin")
    => LET bk == AST[last.ty].bk
           c == last.quals.c
           v == last.quals.v
       IN  CASE bk = "Void" -> last.status = "ok" /\ last.out = VoidType
             [] bk = "Bool" -> last.status = "ok" /\ last.out = BoolType(c, v)
             [] bk \in DOMAIN IntegerClass ->
                    /\ last.status = "ok"
                    /\ last.out = IntegerType(IntegerClass[bk], bk \in UnsignedKinds, c, v)
             [] bk \in DOMAIN FloatingClass ->
                    /\ last.status = "ok"
                    /\ last.out = FloatingType(FloatingClass[bk], c, v)
             [] OTHER -> last.status = "fail"

\* const unsigned long
C8_Witness ==
    /\ last.ty = "ULong"
    /\ last.quals = ConstOnly
    /\ last.out = IntegerType("Long", TRUE, TRUE, FALSE)

\* the first type in a list that does not desugar to a builtin is an
\* anonymous tag
RECURSIVE AnonymousFirst(_)
AnonymousFirst(types) ==
    /\ types # << >>
    /\ LET d == getUnqualifiedDesugaredType(Head(types).ty)
       IN  IF AST[d].kind = "Builtin" THEN AnonymousFirst(Tail(types))
           ELSE IsAnonymousTag(d)

\* an anonymous record or enum is what the call on ty has to convert: at
\* top level, as a field of an expanded record, as pointee, as array
\* element, or as parameter or return type
ReachesAnonymous(ty) ==
    LET n == AST[ty]
    IN  CASE n.kind \in {"Record", "Enum"} /\ n.name = Anonymous -> TRUE
          [] n.kind = "Record" /\ n.name # Anonymous ->
                /\ n.name \in type_decls \ type_defs
                /\ AnonymousFirst([i \in 1..Len(n.fields) |-> n.fields[i].type])
          [] n.kind = "Pointer" -> IsAnonymousTag(getUnqualifiedDesugaredType(n.pointee.ty))
          [] n.kind = "ConstantArray" ->
                IsAnonymousTag(getUnqualifiedDesugaredType(n.element.ty))
          [] n.kind \in {"FunctionProto", "FunctionNoProto"} ->
                AnonymousFirst(Append(n.params, n.ret))
          [] OTHER -> FALSE

C10_NoPartialState ==
    [][(ConvertStep /\ last'.status = "fail")
       => (last'.out.k = "Error" /\ data_layout' = data_layout)]_vars

\* C10 amended: a failed call returns no type and keeps every entry the
\* recorder had before the call; the entries it leaves behind are those of
\* the nested types that were converted before the failure
C10_NoPartialStateAmended ==
    [][(ConvertStep /\ last'.status = "fail")
       => /\ last'.out.k = "Error"
          /\ data_layout \subseteq data_layout'
          /\ returned \subseteq returned'
          /\ \A e \in data_layout' \ data_layout : e.key \in returned' \ returned]_vars

\* the call on int bad(myint, struct { int a; }) failed after an earlier
\* call, and the recorder holds the entry of the first parameter
C10_Witness ==
    /\ ncalls = 2
    /\ last.status = "fail"
    /\ last.ty = "bad"
    /\ \E e \in data_layout : e.ty = "myint"
====
